---- MODULE Spec2Model ----
(***************************************************************************)
(* Model of the generational etcd store (etcdStore.Save / Find / Delete,   *)
(* the index layer and IndexValueList) and of the policy update / delete   *)
(* API handlers of src/pkg/api/objects.go.                                 *)
(*                                                                         *)
(* Strings are sequences of tokens (each token a TLA+ string), so that     *)
(* string concatenation is \o and the empty string "" is <<>>.  Every      *)
(* value kept in the key-value store is such a sequence.                   *)
(***************************************************************************)
EXTENDS Integers, Sequences, FiniteSets, TLC

VARIABLES
    kv,         \* the etcd key-value store: a function from the stored keys to their values
    call,       \* the last completed store call: operation, options, caller's object after it, error
    stm,        \* per client: the Save transaction in flight (etcd STM), or idle
    policies,   \* registry: the policy generations, policies[g] the objects of generation g
    revisions,  \* registry: the revisions, revisions[r] = policy generation and desired state
    mutex,      \* api.policyAndRevisionUpdateMutex: its holder, or "free"
    queued,     \* api.runDesiredStateEnforcement: the number of signals queued in the channel
    handler,    \* per HTTP request goroutine: the position and the locals of the handler
    values,     \* an IndexValueList: the values it holds, in slice order
    listOp,     \* the last completed call on the list: operation, value, list before, result
    saves,      \* per client: its last Save through the STM, the store when it was called,
                \* and the object and the error it returned
    indexCacheMu,   \* indexCacheMu: its holder, or "free"
    indexCache,     \* indexCache: for every kind in the map, the Indexes instance stored
    derivations,    \* per kind: how many Indexes instances have been allocated for it
    caller,     \* per goroutine calling IndexesFor: its position, its kind, what it got
    getter      \* the goroutine of a GET of a policy object: position, parameters, responses

storeVars == <<kv, call, stm>>
apiVars == <<policies, revisions, mutex, queued, handler>>
listVars == <<values, listOp>>
cacheVars == <<indexCacheMu, indexCache, derivations, caller>>
libVars == <<listVars, saves, cacheVars, getter>>
vars == <<kv, call, stm, policies, revisions, mutex, queued, handler, libVars>>

-----------------------------------------------------------------------------
(* Bounds of the model *)

\* highest generation a caller passes in an object / a Save may assign
MaxGen == 2

\* highest policy generation the registry reaches
MaxPolicyGen == 2

\* highest number of runs of the closure of one Save
MaxRuns == 7

\* the objects callers save: one versioned kind and one non-versioned kind
Namespaces == {"p"}
VersionedNames == {"kafka"}
ReplicasValues == {1, 3}
NoteValues == {"x", "y"}
Clients == {"c1", "c2"}
Handlers == {"h1", "h2"}

-----------------------------------------------------------------------------
(* runtime package: generations, keys, type information *)

LastOrEmptyGen == 0
FirstGen == 1

Digits == <<"0", "1", "2", "3", "4", "5", "6", "7", "8", "9">>

\* strconv.Itoa / FormatUint: decimal rendering
RECURSIVE Itoa(_)
Itoa(n) ==
    IF n < 10 THEN <<Digits[n + 1]>>
    ELSE Itoa(n \div 10) \o <<Digits[(n % 10) + 1]>>

\* Generation.String()
GenString(gen) == Itoa(gen)

\* position of the first occurrence of token tok in s at or after position i,
\* Len(s) + 1 when there is none
RECURSIVE IndexFrom(_, _, _)
IndexFrom(s, tok, i) ==
    IF i > Len(s) \/ s[i] = tok THEN i ELSE IndexFrom(s, tok, i + 1)

IndexOf(s, tok) == IndexFrom(s, tok, 1)

DigitValue(c) == IndexOf(Digits, c) - 1

\* runtime.ParseGeneration / unmarshalGen: decimal parsing
RECURSIVE ParseGeneration(_)
ParseGeneration(s) ==
    IF Len(s) = 0 THEN 0
    ELSE ParseGeneration(SubSeq(s, 1, Len(s) - 1)) * 10 + DigitValue(s[Len(s)])

\* Generation.Next()
GenNext(gen) == gen + 1

\* the registered types (s.types.Get(kind)): Versioned flag and the struct fields
\* tagged store:"index"
Types ==
    [Service  |-> [Kind |-> "Service", Versioned |-> TRUE, IndexedFields |-> <<"replicas">>,
                   IndexValueTransforms |-> {}],
     User     |-> [Kind |-> "User", Versioned |-> FALSE, IndexedFields |-> <<>>,
                   IndexValueTransforms |-> {}],
     Endpoint |-> [Kind |-> "Endpoint", Versioned |-> TRUE, IndexedFields |-> <<"replicas">>,
                   IndexValueTransforms |-> {<<"replicas", "omitzero">>}]]

\* runtime.KeyForStorable: namespace/kind/name
KeyForStorable(storable) == <<storable.ns, "/", storable.kind, "/", storable.name>>

\* the absent value: stm.Get returns "" for a key that is not stored
Empty == <<>>

\* a nil object
Nil == [nil |-> TRUE]

\* a nil interface{} value among the (integer) field values
NilValue == -1

NoErr == "nil"

-----------------------------------------------------------------------------
(* codec: marshal / unmarshal of objects, generations and index value lists *)

\* s.marshal(obj): every field of the object, the generation included, in a fixed order
marshal(obj) ==
    <<"kind", obj.kind, "namespace", obj.ns, "name", obj.name, "generation">>
        \o GenString(obj.gen)
        \o <<"replicas">> \o Itoa(obj.replicas)
        \o <<"note", obj.note>>

\* s.unmarshal(data, obj)
unmarshal(data) ==
    LET g == IndexOf(data, "generation")
        r == IndexOf(data, "replicas")
        n == IndexOf(data, "note")
    IN  [kind |-> data[2], ns |-> data[4], name |-> data[6],
         gen |-> ParseGeneration(SubSeq(data, g + 1, r - 1)),
         replicas |-> ParseGeneration(SubSeq(data, r + 1, n - 1)),
         note |-> data[n + 1]]

\* s.marshalGen / s.unmarshalGen
marshalGen(gen) == GenString(gen)

unmarshalGen(raw) == ParseGeneration(raw)

\* s.marshal(valueList): the elements in list order, each introduced by "-"
RECURSIVE marshalList(_)
marshalList(list) ==
    IF list = <<>> THEN <<>>
    ELSE <<"-">> \o Head(list) \o marshalList(Tail(list))

\* s.unmarshal(raw, valueList)
RECURSIVE unmarshalList(_)
unmarshalList(raw) ==
    IF raw = <<>> THEN <<>>
    ELSE LET rest == Tail(raw)
             stop == IndexOf(rest, "-")
         IN  <<SubSeq(rest, 1, stop - 1)>> \o unmarshalList(SubSeq(rest, stop, Len(rest)))

-----------------------------------------------------------------------------
(* IndexValueList: a sorted slice of byte strings with binary search *)

\* bytes.Compare: lexicographic order of byte strings
RECURSIVE BytesCompare(_, _)
BytesCompare(a, b) ==
    IF a = <<>> /\ b = <<>> THEN 0
    ELSE IF a = <<>> THEN -1
    ELSE IF b = <<>> THEN 1
    ELSE IF DigitValue(Head(a)) < DigitValue(Head(b)) THEN -1
    ELSE IF DigitValue(Head(a)) > DigitValue(Head(b)) THEN 1
    ELSE BytesCompare(Tail(a), Tail(b))

\* sort.Search(len(list), func(index) { return bytes.Compare(list[index], value) >= 0 })
\* with 0-based indexes i, j, h as in the Go library
RECURSIVE SearchFrom(_, _, _, _)
SearchFrom(list, value, i, j) ==
    IF i < j
    THEN LET h == (i + j) \div 2
         IN  IF ~(BytesCompare(list[h + 1], value) >= 0)
             THEN SearchFrom(list, value, h + 1, j)
             ELSE SearchFrom(list, value, i, h)
    ELSE i

Search(list, value) == SearchFrom(list, value, 0, Len(list))

\* an Add that appends the value at the end of the slice
AddAtEnd(list, value) == list \o <<value>>

\* an Add that leaves the list as it is
AddIgnored(list, value) == list

\* IndexValueList.Add
Add(list, value) ==
    LET valueIndex == Search(list, value)
    IN  IF valueIndex < Len(list) /\ list[valueIndex + 1] = value
        THEN list
        ELSE SubSeq(list, 1, valueIndex) \o <<value>> \o SubSeq(list, valueIndex + 1, Len(list))

\* IndexValueList.Remove
Remove(list, value) ==
    LET valueIndex == Search(list, value)
    IN  IF valueIndex < Len(list)
        THEN SubSeq(list, 1, valueIndex) \o SubSeq(list, valueIndex + 2, Len(list))
        ELSE list

\* IndexValueList.Contains
Contains(list, value) ==
    LET valueIndex == Search(list, value)
    IN  valueIndex < Len(list) /\ list[valueIndex + 1] = value

-----------------------------------------------------------------------------
(* Index layer *)

IndexTypeLastGen == 1
IndexTypeListGen == 2

\* IndexType.String()
IndexTypeString(indexType) ==
    IF indexType = IndexTypeLastGen THEN "lastgen" ELSE "listgen"

\* lines 443-445
noopValueTransform(val) == val

\* the transform the kind Endpoint registers for its field replicas: zero is not
\* indexed, the transform returns nil for it
omitZeroTransform(val) == IF val = 0 THEN NilValue ELSE val

\* lines 475-478: info.IndexValueTransforms[f.Name], noopValueTransform when nil
Transformer(info, field) ==
    IF \E t \in info.IndexValueTransforms : t[1] = field
    THEN (CHOOSE t \in info.IndexValueTransforms : t[1] = field)[2]
    ELSE "noop"

\* line 548: index.ValueTransform(value)
ValueTransform(index, val) ==
    IF index.ValueTransform = "omitzero" THEN omitZeroTransform(val)
    ELSE noopValueTransform(val)

\* IndexesFor(info): the LastGen index for a versioned kind, then one ListGen index
\* for every field tagged store:"index"
IndexesFor(info) ==
    (IF info.Versioned
     THEN <<[Type |-> IndexTypeLastGen, Field |-> "", ValueTransform |-> ""]>> ELSE <<>>)
    \o [i \in 1..Len(info.IndexedFields) |->
            [Type |-> IndexTypeListGen, Field |-> info.IndexedFields[i],
             ValueTransform |-> Transformer(info, info.IndexedFields[i])]]

\* Index.NameForValue
NameForValue(index, key, value) ==
    LET typed == <<IndexTypeString(index.Type), "/">> \o key
    IN  IF index.Type = IndexTypeLastGen THEN typed
        ELSE LET v == ValueTransform(index, value)
             IN  IF v = NilValue THEN <<>>
                 ELSE typed \o <<"/", index.Field, "=">> \o Itoa(v)

\* Index.NameForStorable (Index.KeyForStorable at the call sites in Save)
NameForStorable(index, storable) ==
    LET key == KeyForStorable(storable)
    IN  IF index.Type = IndexTypeLastGen
        THEN NameForValue(index, key, NilValue)
        ELSE NameForValue(index, key, storable[index.Field])

-----------------------------------------------------------------------------
(* etcd STM: the transaction handle passed to the closure of Save *)

\* a fresh transaction over the store contents `store`
NewSTM(store) == [store |-> store, rset |-> {}, wset |-> <<>>]

\* stm.Get: the transaction's own write if there is one, else the stored value,
\* "" when the key is not stored
StmGet(t, k) ==
    IF k \in DOMAIN t.wset THEN t.wset[k]
    ELSE IF k \in DOMAIN t.store THEN t.store[k]
    ELSE Empty

\* the read set after stm.Get(k)
StmRead(t, k) ==
    IF k \in DOMAIN t.wset THEN t ELSE [t EXCEPT !.rset = @ \cup {k}]

\* stm.Put
StmPut(t, k, v) == [t EXCEPT !.wset = (k :> v) @@ @]

\* the store after the transaction's writes are applied
Commit(store, wset) == wset @@ store

-----------------------------------------------------------------------------
(* etcdStore.Save *)

ObjectKey(key, gen) == <<"/object">> \o key \o <<"@">> \o GenString(gen)

IndexKey(name) == <<"/index/">> \o name

\* the outcome of one run of the closure
Outcome(err, obj, t) == [err |-> err, obj |-> obj, rset |-> t.rset, wset |-> t.wset]

\* lines 759-782: the loop over the indexes of the kind
RECURSIVE UpdateIndexes(_, _, _, _)
UpdateIndexes(t, indexes, newObj, prevObj) ==
    IF indexes = <<>> THEN t
    ELSE LET index == Head(indexes)
             indexKey == IndexKey(NameForStorable(index, newObj))
             newGen == newObj.gen
             t1 == IF index.Type = IndexTypeLastGen
                   THEN StmPut(t, indexKey, marshalGen(newGen))
                   ELSE \* ListGen; nothing is removed for prevObj (the todo at line 765)
                        LET valueListRaw == StmGet(t, indexKey)
                            valueList == IF valueListRaw # Empty
                                         THEN unmarshalList(valueListRaw) ELSE <<>>
                        IN  StmPut(StmRead(t, indexKey), indexKey,
                                   marshalList(Add(valueList, marshalGen(newGen))))
         IN  UpdateIndexes(t1, Tail(indexes), newObj, prevObj)

\* the object is written and no index is updated
WriteObjectOnly(t, newObj, prevObj, info) ==
    Outcome(NoErr, newObj,
            StmPut(t, ObjectKey(<<"/">> \o KeyForStorable(newObj), newObj.gen), marshal(newObj)))

\* lines 755-784: write the object at its generation, then update the indexes
WriteObject(t, newObj, prevObj, info) ==
    LET key == <<"/">> \o KeyForStorable(newObj)
        t1 == StmPut(t, ObjectKey(key, newObj.gen), marshal(newObj))
    IN  Outcome(NoErr, newObj, UpdateIndexes(t1, IndexesFor(info), newObj, prevObj))

\* a comparison that never finds the stored object equal (comparing the two pointers)
DeepEqualPointers(a, b) == FALSE

\* reflect.DeepEqual on two objects: every field, the generation included
DeepEqual(a, b) == a = b

\* ReplaceOrForceGen with no test of the generation of the object
SaveReplaceAnyGen(t, newObj, info) ==
    WriteObject(StmRead(t, ObjectKey(<<"/">> \o KeyForStorable(newObj), newObj.gen)),
                newObj, Nil, info)

\* lines 712-730: ReplaceOrForceGen. The old object unmarshalled at line 727 is
\* assigned to a variable declared at line 721 that shadows prevObj, so prevObj is nil
SaveReplaceOrForceGen(t, newObj, info) ==
    LET key == <<"/">> \o KeyForStorable(newObj)
        newGen == newObj.gen
    IN  IF newGen = LastOrEmptyGen
        THEN Outcome("empty generation", newObj, t)
        ELSE WriteObject(StmRead(t, ObjectKey(key, newGen)), newObj, Nil, info)

\* lines 732-752: default mode
SaveDefault(t, newObj, info) ==
    LET key == <<"/">> \o KeyForStorable(newObj)
        lastGenKey == IndexKey(NameForStorable(IndexesFor(info)[1], newObj))
        lastGenRaw == StmGet(t, lastGenKey)
        t1 == StmRead(t, lastGenKey)
    IN  IF lastGenRaw = Empty
        THEN WriteObject(t1, [newObj EXCEPT !.gen = FirstGen], Nil, info)
        ELSE LET lastGen == unmarshalGen(lastGenRaw)
                 oldObjRaw == StmGet(t1, ObjectKey(key, lastGen))
                 t2 == StmRead(t1, ObjectKey(key, lastGen))
             IN  IF oldObjRaw = Empty
                 THEN Outcome("last gen index corrupted", newObj, t2)
                 ELSE LET prevObj == unmarshal(oldObjRaw)
                      IN  IF ~DeepEqual(prevObj, newObj)
                          THEN WriteObject(t2, [newObj EXCEPT !.gen = GenNext(lastGen)],
                                           prevObj, info)
                          ELSE Outcome(NoErr, [newObj EXCEPT !.gen = lastGen], t2)

\* lines 708-785: one run of the closure handed to NewSTM, over the contents `store`
SaveTxn(store, newObj, opts, info) ==
    IF opts.replaceOrForceGen
    THEN SaveReplaceOrForceGen(NewSTM(store), newObj, info)
    ELSE SaveDefault(NewSTM(store), newObj, info)

\* a Put of a non-versioned object at the generation the object carries
SaveNonVersionedAtOwnGen(store, newStorable) ==
    LET key == <<"/">> \o KeyForStorable(newStorable)
    IN  [err |-> NoErr, obj |-> newStorable, rset |-> {},
         wset |-> (ObjectKey(key, newStorable.gen) :> marshal(newStorable))]

\* lines 699-703: the single Put of a non-versioned object at generation 0
SaveNonVersioned(store, newStorable) ==
    LET key == <<"/">> \o KeyForStorable(newStorable)
    IN  [err |-> NoErr, obj |-> newStorable, rset |-> {},
         wset |-> (ObjectKey(key, LastOrEmptyGen) :> marshal(newStorable))]

\* etcdStore.Save with no concurrent client: the closure runs once and commits
Save(store, newStorable, opts) ==
    IF newStorable = Nil
    THEN [err |-> "can't save nil", obj |-> Nil, rset |-> {}, wset |-> <<>>]
    ELSE LET info == Types[newStorable.kind]
         IN  IF ~info.Versioned
             THEN SaveNonVersioned(store, newStorable)
             ELSE LET out == SaveTxn(store, newStorable, opts, info)
                  IN  IF out.err = NoErr THEN out ELSE [out EXCEPT !.wset = <<>>]

-----------------------------------------------------------------------------
(* etcdStore.Find and etcdStore.Delete *)

\* info.New(): a zero object of the kind
NewObject(info) ==
    [kind |-> info.Kind, ns |-> "", name |-> "", gen |-> 0, replicas |-> 0, note |-> ""]

\* findByKeyPrefix, findByKey: return nil without calling addToResult
findByKeyPrefix(opts, info, result) == [err |-> NoErr, result |-> result]

findByKey(opts, info, result) == [err |-> NoErr, result |-> result]

\* findByPredicate: addToResult(info.New()) twice; addToResult is reflect.Append on
\* the result, which panics when the result is not a slice
findByPredicate(opts, info, shape, result) ==
    IF shape = "list"
    THEN [err |-> NoErr, result |-> result \o <<NewObject(info), NewObject(info)>>]
    ELSE [err |-> "panic", result |-> result]

\* etcdStore.Find: the shape of result is "single" (*T), "list" (*[]*T) or "other"
Find(kind, shape, result, findOpts) ==
    LET info == Types[kind]
    IN  IF shape \notin {"single", "list"}
        THEN [err |-> "result should be single or list", result |-> result]
        ELSE IF findOpts.keyPrefix # <<>>
        THEN findByKeyPrefix(findOpts, info, result)
        ELSE IF findOpts.key # <<>> /\ findOpts.fieldEqName = ""
        THEN findByKey(findOpts, info, result)
        ELSE findByPredicate(findOpts, info, shape, result)

-----------------------------------------------------------------------------
(* The calls of a single client *)

DefaultOpts == [replaceOrForceGen |-> FALSE]

SaveOpts == [replaceOrForceGen : BOOLEAN]

NoFindOpts == [keyPrefix |-> <<>>, key |-> <<>>, gen |-> 0, fieldEqName |-> ""]

\* the objects passed to Save
VersionedObjects ==
    [kind : {"Service"}, ns : Namespaces, name : VersionedNames, gen : 0..MaxGen,
     replicas : ReplicasValues, note : NoteValues]

NonVersionedObjects ==
    [kind : {"User"}, ns : Namespaces, name : {"sam"}, gen : {0, 1},
     replicas : {1}, note : NoteValues]

\* objects of a versioned kind whose indexed field has a transform that returns nil
\* for the value zero
EndpointObjects ==
    [kind : {"Endpoint"}, ns : Namespaces, name : {"a", "b"}, gen : {LastOrEmptyGen},
     replicas : {0, 1}, note : NoteValues]

StoredKeys == {KeyForStorable(o) : o \in VersionedObjects \cup NonVersionedObjects}

FindOptsSet ==
    [keyPrefix : {<<>>, <<"p", "/", "Service">>},
     key : {<<>>} \cup {KeyForStorable(o) : o \in VersionedObjects},
     gen : {0, 1},
     fieldEqName : {"", "replicas"}]

\* s is a prefix of k
HasPrefix(k, s) == Len(s) <= Len(k) /\ SubSeq(k, 1, Len(s)) = s

\* the generations g with /object/<key>@g stored
StoredGens(store, key) ==
    {g \in 0..(MaxGen + 1) : ObjectKey(<<"/">> \o key, g) \in DOMAIN store}

NoCall ==
    [op |-> "none", opts |-> DefaultOpts, arg |-> Nil, obj |-> Nil, err |-> NoErr,
     wrote |-> {}, fresh |-> FALSE, again |-> FALSE,
     shape |-> "", find |-> NoFindOpts, result |-> <<>>]

\* the state after Save(newStorable, opts) has returned with outcome out
SaveReturn(newStorable, opts, out) ==
    /\ out.obj # Nil => out.obj.gen <= MaxGen
    /\ kv' = Commit(kv, out.wset)
    /\ call' = [NoCall EXCEPT
            !.op = "Save", !.opts = opts, !.arg = newStorable, !.obj = out.obj,
            !.err = out.err, !.wrote = DOMAIN out.wset,
            !.fresh = (newStorable # Nil /\ StoredGens(kv, KeyForStorable(newStorable)) = {}),
            !.again = /\ newStorable # Nil
                      /\ Types[newStorable.kind].Versioned
                      /\ ~opts.replaceOrForceGen
                      /\ call.op = "Save" /\ call.err = NoErr
                      /\ ~call.opts.replaceOrForceGen
                      /\ call.obj = newStorable]
    /\ UNCHANGED <<libVars, stm, apiVars>>

\* a client calls Save(newStorable, opts) and the call returns
SaveCall(newStorable, opts) == SaveReturn(newStorable, opts, Save(kv, newStorable, opts))

\* the state after Find has returned with outcome out
FindReturn(shape, findOpts, out) ==
    /\ call' = [NoCall EXCEPT
            !.op = "Find", !.err = out.err, !.shape = shape, !.find = findOpts,
            !.result = out.result]
    /\ UNCHANGED <<libVars, kv, stm, apiVars>>

\* a client calls Find(kind, result, opts) with an empty result and the call returns
FindCall(kind, shape, findOpts) ==
    FindReturn(shape, findOpts, Find(kind, shape, <<>>, findOpts))

\* etcdStore.Delete: panic("implement me")
DeleteCall(kind, key) ==
    /\ call' = [NoCall EXCEPT !.op = "Delete", !.err = "panic"]
    /\ UNCHANGED <<libVars, kv, stm, apiVars>>

-----------------------------------------------------------------------------
(* The policy update and delete handlers (handlePolicyUpdate,                 *)
(* handlePolicyDelete, changePolicy). Each request runs in its own goroutine; *)
(* a step of a handler is one call into the registry, one operation on the    *)
(* mutex or on the channel, or a stretch of purely local computation.         *)

\* the policy objects a request may carry, and their kinds
PolicyObjects == {"rule", "svc", "k8s"}
Kind(obj) == CASE obj = "rule" -> "aclrule" [] obj = "k8s" -> "cluster" [] OTHER -> "service"
Users == {"admin", "alice"}

\* runtime.MaxGeneration, "nothing to wait for"
MaxGeneration == 2147483647

\* capacity of the channel api.runDesiredStateEnforcement
ChanCapacity == 1

\* the validation of a request that fails, decided outside of the handlers:
\* policyUpdated.Validate, plugin.Validate of a cluster, desiredStateUpdated.Validate
Failures == {"none", "policy", "plugin", "resolution"}

Requests ==
    [delete : BOOLEAN, objects : SUBSET PolicyObjects \ {{}}, user : Users,
     noop : BOOLEAN, fails : Failures]

\* apiObjectSorter.Weight: ACL rules have to come in the first place
Weight(obj) == IF Kind(obj) = "aclrule" THEN 0 ELSE 1

RECURSIVE SeqOf(_)
SeqOf(S) == IF S = {} THEN <<>> ELSE LET x == CHOOSE y \in S : TRUE IN <<x>> \o SeqOf(S \ {x})

\* the objects in the order of the request body, not sorted
BodyOrder(objects, delete) == SeqOf(objects)

\* sort.Sort(apiObjectSorter(objects)), and sort.Sort(sort.Reverse(...)) for a delete
SortObjects(objects, delete) ==
    LET first == SeqOf({o \in objects : Weight(o) = 0})
        rest == SeqOf({o \in objects : Weight(o) = 1})
    IN IF delete THEN rest \o first ELSE first \o rest

\* registry.GetPolicy(gen): the policy of a generation, the empty policy before the first
PolicyAt(gen) == IF gen = LastOrEmptyGen THEN {} ELSE policies[gen]
LastPolicyGen == Len(policies)

\* registry.GetLastRevisionForPolicy(policyGen): generation of the latest revision
\* recorded for the policy generation, 0 if there is none
GetLastRevisionForPolicy(policyGen) ==
    LET rs == {r \in 1..Len(revisions) : revisions[r].policyGen = policyGen}
    IN IF rs = {} THEN 0 ELSE CHOOSE r \in rs : \A q \in rs : q <= r

\* registry.GetDesiredState(revision): the empty resolution for no revision
GetDesiredState(revision) == IF revision = 0 THEN {} ELSE revisions[revision].desiredState

\* policy.View(user).ManageObject(obj): a domain admin manages every object, another
\* user manages the objects other than ACL rules once an ACL rule of the policy
\* grants it
ManageObject(policy, user, obj) ==
    \/ user = "admin"
    \/ Kind(obj) # "aclrule" /\ "rule" \in policy

\* the loop over the sorted objects: ManageObject on the working copy, then
\* AddObject / RemoveObject on it
RECURSIVE ApplyObjects(_, _, _, _)
ApplyObjects(policy, user, objects, delete) ==
    IF objects = <<>> THEN [err |-> NoErr, policy |-> policy]
    ELSE IF ~ManageObject(policy, user, Head(objects))
         THEN [err |-> "manage", policy |-> policy]
         ELSE ApplyObjects(IF delete THEN policy \ {Head(objects)}
                                     ELSE policy \cup {Head(objects)},
                           user, Tail(objects), delete)

\* resolve.NewPolicyResolver(policy, ...).ResolveAllClaims(): the instances to run
ResolveAllClaims(policy) == {o \in policy : Kind(o) = "service"}

\* diff.NewPolicyResolutionDiff(next, prev).ActionPlan
ActionPlan(next, prev) == [create |-> next \ prev, destroy |-> prev \ next]

NoPlan == ActionPlan({}, {})
NoResponse == [status |-> 0, changed |-> FALSE, policyGen |-> 0,
               waitForRevision |-> 0, plan |-> NoPlan]
NoRequest == [delete |-> FALSE, objects |-> {}, user |-> "admin", noop |-> FALSE,
              fails |-> "none"]
IdleHandler ==
    [pc |-> "idle", req |-> NoRequest, policyGen |-> 0, desiredState |-> {},
     policyUpdated |-> {}, desiredStateUpdated |-> {}, plan |-> NoPlan,
     changed |-> FALSE, newPolicyGen |-> 0, revisionGen |-> 0, response |-> NoResponse]

\* api.contentType.WriteOne(writer, request, &PolicyUpdateResult{...})
PolicyUpdateResult(changed, policyGen, waitForRevision, plan) ==
    [status |-> 200, changed |-> changed, policyGen |-> policyGen,
     waitForRevision |-> waitForRevision, plan |-> plan]

\* a panic of the handler goroutine: the request ends with an error response
PanicResponse == [NoResponse EXCEPT !.status = 500]

\* the composition with the three validations left out
ComposeUnchecked(req, policy, desiredState) ==
    LET applied == ApplyObjects(policy, req.user, SortObjects(req.objects, req.delete),
                                req.delete)
    IN [err |-> applied.err, policyUpdated |-> applied.policy,
        desiredStateUpdated |-> ResolveAllClaims(applied.policy),
        plan |-> ActionPlan(ResolveAllClaims(applied.policy), desiredState)]

\* lines 180-237 / 300-335 on the locals of a handler: sort, check and apply the
\* objects, validate, resolve, validate the resolution, diff
Compose(req, policy, desiredState) ==
    LET applied == ApplyObjects(policy, req.user, SortObjects(req.objects, req.delete),
                                req.delete)
        resolved == ResolveAllClaims(applied.policy)
        err == IF applied.err # NoErr THEN applied.err
               ELSE IF req.fails = "policy" THEN "policy"
               ELSE IF /\ req.fails = "plugin" /\ ~req.delete
                       /\ \E o \in req.objects : Kind(o) = "cluster" THEN "plugin"
               ELSE IF req.fails = "resolution" THEN "resolution"
               ELSE NoErr
    IN [err |-> err, policyUpdated |-> applied.policy, desiredStateUpdated |-> resolved,
        plan |-> ActionPlan(resolved, desiredState)]

\* registry.UpdatePolicy / registry.DeleteFromPolicy on the latest policy
ChangedPolicy(objects, delete) ==
    IF delete THEN PolicyAt(LastPolicyGen) \ objects ELSE PolicyAt(LastPolicyGen) \cup objects

\* a goroutine that is not inside IndexesFor and has not called it yet
IdleCaller == [pc |-> "idle", kind |-> "", next |-> 1, got |-> Nil]

\* the goroutine of a GET before its first request
IdleGetter == [pc |-> "idle", gen |-> 0, object |-> "", policy |-> {}, written |-> <<>>]

\* no call on the list has completed yet
NoListOp == [op |-> "none", value |-> <<>>, before |-> <<>>, found |-> FALSE]

\* everything but the store contents, as it is when the process starts
InitProcess ==
    /\ call = NoCall
    /\ stm = [c \in Clients |-> Nil]
    /\ policies = <<>>
    /\ revisions = <<>>
    /\ mutex = "free"
    /\ queued = 0
    /\ handler = [h \in Handlers |-> IdleHandler]
    /\ values = <<>>
    /\ listOp = NoListOp
    /\ saves = [c \in Clients |-> Nil]
    /\ indexCacheMu = "free"
    /\ indexCache = <<>>
    /\ derivations = [kind \in DOMAIN Types |-> 0]
    /\ caller = [c \in Clients |-> IdleCaller]
    /\ getter = IdleGetter

Init ==
    /\ kv = <<>>
    /\ InitProcess

\* calls of Save in either mode and of Delete, one at a time
Next ==
    \/ \E o \in VersionedObjects \cup {Nil}, opts \in SaveOpts : SaveCall(o, opts)
    \/ \E key \in StoredKeys : DeleteCall("Service", key)

Spec == Init /\ [][Next]_vars

\* an etcd store damaged from outside the process: the lastgen index of p/kafka
\* names generation 2, and generation 1 is the only one stored (the state the
\* check at lines 739-741 is written for)
DamagedStore ==
    LET first == CHOOSE o \in VersionedObjects :
                    o.gen = LastOrEmptyGen /\ o.replicas = 1 /\ o.note = "x"
        saved == Commit(<<>>, Save(<<>>, first, DefaultOpts).wset)
    IN  [k \in DOMAIN saved |->
            IF k = IndexKey(NameForStorable(IndexesFor(Types.Service)[1], first))
            THEN marshalGen(2) ELSE saved[k]]

InitDamaged ==
    /\ kv = DamagedStore
    /\ InitProcess

\* the calls of Spec on a store that is empty or damaged when the process starts
InitEmptyOrDamaged == Init \/ InitDamaged

SpecDamaged == InitEmptyOrDamaged /\ [][Next]_vars

\* calls of Save in default mode only, and of Find, one at a time
NextDefault ==
    \/ \E o \in VersionedObjects : SaveCall(o, DefaultOpts)
    \/ \E shape \in {"single", "list", "other"}, findOpts \in FindOptsSet :
            FindCall("Service", shape, findOpts)

SpecDefault == Init /\ [][NextDefault]_vars

\* Save of objects of both kinds: non-versioned objects with every option and
\* generation, versioned objects in default mode
NextKinds ==
    \/ \E o \in NonVersionedObjects, opts \in SaveOpts : SaveCall(o, opts)
    \/ \E o \in VersionedObjects : SaveCall(o, DefaultOpts)

SpecKinds == Init /\ [][NextKinds]_vars

\* Save in default mode of objects with two names, of a kind with a value transform
NextNames == \E o \in EndpointObjects : SaveCall(o, DefaultOpts)

SpecNames == Init /\ [][NextNames]_vars

-----------------------------------------------------------------------------
(* IndexValueList on its own: calls of Add, Remove and Contains on one list   *)

\* the values given to the list: marshalled generations of one and two digits
ListValues == {marshalGen(g) : g \in {1, 2, 3, 10, 25}}

\* the longest list the calls build
MaxListLen == 5

\* list.Add(value)
ListAdd(value) ==
    /\ Len(Add(values, value)) <= MaxListLen
    /\ values' = Add(values, value)
    /\ listOp' = [op |-> "Add", value |-> value, before |-> values, found |-> FALSE]
    /\ UNCHANGED <<storeVars, apiVars, saves, cacheVars, getter>>

\* list.Remove(value)
ListRemove(value) ==
    /\ values' = Remove(values, value)
    /\ listOp' = [op |-> "Remove", value |-> value, before |-> values, found |-> FALSE]
    /\ UNCHANGED <<storeVars, apiVars, saves, cacheVars, getter>>

\* list.Contains(value)
ListContains(value) ==
    /\ listOp' = [op |-> "Contains", value |-> value, before |-> values,
                  found |-> Contains(values, value)]
    /\ UNCHANGED <<storeVars, apiVars, values, saves, cacheVars, getter>>

NextList ==
    \/ \E value \in ListValues : ListAdd(value)
    \/ \E value \in ListValues : ListRemove(value)
    \/ \E value \in ListValues : ListContains(value)

SpecList == Init /\ [][NextList]_vars

-----------------------------------------------------------------------------
(* IndexesFor and its cache (lines 412-488): concurrent calls, one step for   *)
(* every operation on the mutex and on the map and for every index added      *)

\* the most Indexes instances allocated for one kind
MaxDerivations == 2

cacheFrame == <<storeVars, apiVars, listVars, saves, getter>>

\* a goroutine calls IndexesFor(info) for the kind
IndexesForCall(c, kind) ==
    /\ caller[c].pc = "idle"
    /\ caller' = [caller EXCEPT ![c] = [IdleCaller EXCEPT !.pc = "lock", !.kind = kind]]
    /\ UNCHANGED <<cacheFrame, indexCacheMu, indexCache, derivations>>

\* entering IndexesFor without waiting for indexCacheMu
CacheLockWithoutWaiting(c) ==
    /\ caller[c].pc = "lock"
    /\ indexCacheMu' = c
    /\ caller' = [caller EXCEPT ![c].pc = "lookup"]
    /\ UNCHANGED <<cacheFrame, indexCache, derivations>>

\* line 449: indexCacheMu.Lock()
CacheLock(c) ==
    /\ caller[c].pc = "lock"
    /\ indexCacheMu = "free"
    /\ indexCacheMu' = c
    /\ caller' = [caller EXCEPT ![c].pc = "lookup"]
    /\ UNCHANGED <<cacheFrame, indexCache, derivations>>

\* lines 452-456: the lookup in the map; when the kind is not there, a new empty
\* Indexes instance is put into the map before anything is added to it
CacheLookup(c) ==
    /\ caller[c].pc = "lookup"
    /\ IF caller[c].kind \in DOMAIN indexCache
       THEN /\ caller' = [caller EXCEPT ![c].pc = "unlock"]
            /\ UNCHANGED <<indexCache, derivations>>
       ELSE /\ derivations[caller[c].kind] < MaxDerivations
            /\ derivations' = [derivations EXCEPT ![caller[c].kind] = @ + 1]
            /\ indexCache' = [k \in DOMAIN indexCache \cup {caller[c].kind} |->
                    IF k = caller[c].kind
                    THEN [id |-> derivations[k] + 1, List |-> <<>>]
                    ELSE indexCache[k]]
            /\ caller' = [caller EXCEPT ![c].pc = "lastgen"]
    /\ UNCHANGED <<cacheFrame, indexCacheMu>>

\* lines 458-462: the LastGen index of a versioned kind
CacheAddLastGen(c) ==
    /\ caller[c].pc = "lastgen"
    /\ indexCache' = [indexCache EXCEPT ![caller[c].kind].List =
            IF Types[caller[c].kind].Versioned
            THEN Append(@, [Type |-> IndexTypeLastGen, Field |-> "", ValueTransform |-> ""])
            ELSE @]
    /\ caller' = [caller EXCEPT ![c].pc = "fields", ![c].next = 1]
    /\ UNCHANGED <<cacheFrame, indexCacheMu, derivations>>

\* lines 468-485: one turn of the loop over the fields, for a field tagged as
\* indexed, and the end of the loop
CacheAddField(c) ==
    /\ caller[c].pc = "fields"
    /\ IF caller[c].next <= Len(Types[caller[c].kind].IndexedFields)
       THEN /\ indexCache' = [indexCache EXCEPT ![caller[c].kind].List =
                    Append(@, [Type |-> IndexTypeListGen,
                               Field |-> Types[caller[c].kind].IndexedFields[caller[c].next],
                               ValueTransform |->
                                    Transformer(Types[caller[c].kind],
                                        Types[caller[c].kind].IndexedFields[caller[c].next])])]
            /\ caller' = [caller EXCEPT ![c].next = @ + 1]
       ELSE /\ caller' = [caller EXCEPT ![c].pc = "unlock"]
            /\ indexCache' = indexCache
    /\ UNCHANGED <<cacheFrame, indexCacheMu, derivations>>

\* lines 450 and 487: the deferred Unlock and the return of the instance in the map
CacheUnlock(c) ==
    /\ caller[c].pc = "unlock"
    /\ indexCacheMu' = "free"
    /\ caller' = [caller EXCEPT ![c].pc = "idle", ![c].got = indexCache[caller[c].kind]]
    /\ UNCHANGED <<cacheFrame, indexCache, derivations>>

NextCache ==
    \/ \E c \in Clients, kind \in DOMAIN Types : IndexesForCall(c, kind)
    \/ \E c \in Clients : CacheLock(c)
    \/ \E c \in Clients : CacheLookup(c)
    \/ \E c \in Clients : CacheAddLastGen(c)
    \/ \E c \in Clients : CacheAddField(c)
    \/ \E c \in Clients : CacheUnlock(c)

SpecCache == Init /\ [][NextCache]_vars

-----------------------------------------------------------------------------
(* Concurrent clients: Save in default mode through the etcd STM              *)
(* (NewSTM, isolation SerializableSnapshot): the closure runs against the     *)
(* store as it is when it reads, the commit is one etcd transaction that      *)
(* succeeds iff no key read or written by the closure was changed meanwhile,  *)
(* and the closure is run again, on the same object, when the commit fails.   *)

\* the objects the concurrent clients save: fresh objects, generation not set
FreshObjects == {o \in VersionedObjects : o.gen = LastOrEmptyGen}

\* the contents of the keys ks in the store
Snapshot(store, ks) == [k \in ks |-> IF k \in DOMAIN store THEN store[k] ELSE Empty]

\* client c calls Save(newStorable, opts) on a versioned object: the transaction
\* starts, its closure has not run yet
StmBeginWith(c, newStorable, opts) ==
    /\ stm[c] = Nil
    /\ stm' = [stm EXCEPT ![c] = [pc |-> "apply", arg |-> newStorable, obj |-> newStorable,
                                  opts |-> opts, runs |-> 0,
                                  snap |-> <<>>, wset |-> <<>>]]
    /\ saves' = [saves EXCEPT ![c] = [base |-> kv, arg |-> newStorable, obj |-> Nil,
                                      err |-> NoErr, done |-> FALSE]]
    /\ UNCHANGED <<listVars, cacheVars, getter, kv, call, apiVars>>

\* client c calls Save(newStorable) in default mode
StmBegin(c, newStorable) == StmBeginWith(c, newStorable, DefaultOpts)

\* the closure has run with outcome out: on an error Save returns it, otherwise
\* the commit is pending
StmApplied(c, out) ==
    /\ out.obj.gen <= MaxGen
    /\ IF out.err # NoErr
       THEN /\ stm' = [stm EXCEPT ![c] = Nil]
            /\ call' = [NoCall EXCEPT !.op = "Save", !.opts = stm[c].opts,
                                      !.arg = stm[c].arg, !.obj = out.obj, !.err = out.err]
            /\ saves' = [saves EXCEPT ![c] = [@ EXCEPT !.obj = out.obj, !.err = out.err,
                                                       !.done = TRUE]]
       ELSE /\ stm' = [stm EXCEPT ![c] = [pc |-> "commit", arg |-> stm[c].arg, obj |-> out.obj,
                                          opts |-> stm[c].opts, runs |-> stm[c].runs + 1,
                                          snap |-> Snapshot(kv, out.rset \cup DOMAIN out.wset),
                                          wset |-> out.wset]]
            /\ call' = call
            /\ saves' = saves
    /\ UNCHANGED <<listVars, cacheVars, getter, kv, apiVars>>

\* client c runs the closure of Save (lines 708-785) on its object
StmApply(c) ==
    /\ stm[c] # Nil
    /\ stm[c].pc = "apply"
    /\ StmApplied(c, SaveTxn(kv, stm[c].obj, stm[c].opts, Types[stm[c].obj.kind]))

\* no key the closure read or wrote has changed since it ran
NoConflict(store, snap) == Snapshot(store, DOMAIN snap) = snap

\* the transaction of client c commits: all its writes at once, and Save returns
StmCommit(c) ==
    /\ stm[c] # Nil
    /\ stm[c].pc = "commit"
    /\ NoConflict(kv, stm[c].snap)
    /\ kv' = Commit(kv, stm[c].wset)
    /\ call' = [NoCall EXCEPT !.op = "Save", !.opts = stm[c].opts, !.arg = stm[c].arg,
                              !.obj = stm[c].obj, !.wrote = DOMAIN stm[c].wset]
    /\ stm' = [stm EXCEPT ![c] = Nil]
    /\ saves' = [saves EXCEPT ![c] = [@ EXCEPT !.obj = stm[c].obj, !.done = TRUE]]
    /\ UNCHANGED <<listVars, cacheVars, getter, apiVars>>

\* the commit of client c fails on a conflict: the closure is run again
StmRetry(c) ==
    /\ stm[c] # Nil
    /\ stm[c].pc = "commit"
    /\ ~NoConflict(kv, stm[c].snap)
    /\ stm[c].runs < MaxRuns
    /\ stm' = [stm EXCEPT ![c] = [@ EXCEPT !.pc = "apply", !.snap = <<>>, !.wset = <<>>]]
    /\ UNCHANGED <<libVars, kv, call, apiVars>>

NextSTM ==
    \/ \E c \in Clients, o \in FreshObjects : StmBegin(c, o)
    \/ \E c \in Clients : StmApply(c)
    \/ \E c \in Clients : StmCommit(c)
    \/ \E c \in Clients : StmRetry(c)

SpecSTM == Init /\ [][NextSTM]_vars

\* the options of a Save with ReplaceOrForceGen
ReplaceOpts == [replaceOrForceGen |-> TRUE]

\* the client whose Save in default mode is under contention, and the object it saves
Saver == "c1"
SavedObjects == {o \in FreshObjects : o.replicas = 3 /\ o.note = "x"}

\* the client that keeps replacing generation 1 of the same key, and what it writes
Contender == "c2"
ReplacedObjects == {o \in VersionedObjects : o.gen = FirstGen /\ o.replicas = 1}

\* a Save in default mode under contention: another client keeps replacing the last
\* generation of the same key while its transaction is in flight
NextRetry ==
    \/ \E o \in SavedObjects : StmBeginWith(Saver, o, DefaultOpts)
    \/ \E o \in ReplacedObjects : StmBeginWith(Contender, o, ReplaceOpts)
    \/ \E c \in Clients : StmApply(c)
    \/ \E c \in Clients : StmCommit(c)
    \/ \E c \in Clients : StmRetry(c)

SpecRetry == Init /\ [][NextRetry]_vars

-----------------------------------------------------------------------------
(* Concurrent policy update and delete requests *)

\* a request arrives: api.readLang, api.getUserRequired
Request(h, req) ==
    /\ handler[h].pc = "idle"
    /\ LastPolicyGen + Cardinality({g \in Handlers : handler[g].pc # "idle"}) < MaxPolicyGen
    /\ handler' = [handler EXCEPT ![h] = [IdleHandler EXCEPT !.pc = "load", !.req = req]]
    /\ UNCHANGED <<libVars, storeVars, policies, revisions, mutex, queued>>

\* line 157 / 277: load the latest policy generation
LoadPolicyGen(h) ==
    /\ handler[h].pc = "load"
    /\ handler' = [handler EXCEPT ![h].pc = "revision", ![h].policyGen = LastPolicyGen]
    /\ UNCHANGED <<libVars, storeVars, policies, revisions, mutex, queued>>

\* lines 163-178 / 283-298: the latest revision of that policy generation, its
\* desired state, and a copy of the policy
LoadRevision(h) ==
    /\ handler[h].pc = "revision"
    /\ handler' = [handler EXCEPT
            ![h].pc = "compose",
            ![h].desiredState = GetDesiredState(GetLastRevisionForPolicy(handler[h].policyGen)),
            ![h].policyUpdated = PolicyAt(handler[h].policyGen)]
    /\ UNCHANGED <<libVars, storeVars, policies, revisions, mutex, queued>>

\* the outcome of the composition with the noop flag of the request not looked at
ComposedIgnoringNoop(h, out) ==
    /\ handler' = [handler EXCEPT ![h] =
            IF out.err # NoErr
            THEN [@ EXCEPT !.pc = "idle", !.policyUpdated = out.policyUpdated,
                           !.response = PanicResponse]
            ELSE [@ EXCEPT !.pc = "lock", !.policyUpdated = out.policyUpdated,
                           !.desiredStateUpdated = out.desiredStateUpdated,
                           !.plan = out.plan]]
    /\ UNCHANGED <<libVars, storeVars, policies, revisions, mutex, queued>>

\* the handler has composed, validated, resolved and diffed with outcome out: it
\* panics on an error, answers a noop request, and goes on to changePolicy otherwise
Composed(h, out) ==
    /\ handler' = [handler EXCEPT ![h] =
            IF out.err # NoErr
            THEN [@ EXCEPT !.pc = "idle", !.policyUpdated = out.policyUpdated,
                           !.response = PanicResponse]
            ELSE IF @.req.noop
            THEN [@ EXCEPT !.pc = "idle", !.policyUpdated = out.policyUpdated,
                           !.desiredStateUpdated = out.desiredStateUpdated,
                           !.plan = out.plan,
                           !.response = PolicyUpdateResult(FALSE, handler[h].policyGen,
                                                           MaxGeneration, out.plan)]
            ELSE [@ EXCEPT !.pc = "lock", !.policyUpdated = out.policyUpdated,
                           !.desiredStateUpdated = out.desiredStateUpdated,
                           !.plan = out.plan]]
    /\ UNCHANGED <<libVars, storeVars, policies, revisions, mutex, queued>>

\* lines 180-250 / 300-348
ComposeStep(h) ==
    /\ handler[h].pc = "compose"
    /\ Composed(h, Compose(handler[h].req, handler[h].policyUpdated, handler[h].desiredState))

\* entering changePolicy without waiting for the mutex
LockWithoutWaiting(h) ==
    /\ handler[h].pc = "lock"
    /\ mutex' = h
    /\ handler' = [handler EXCEPT ![h].pc = "change"]
    /\ UNCHANGED <<libVars, storeVars, policies, revisions, queued>>

\* line 372: api.policyAndRevisionUpdateMutex.Lock()
Lock(h) ==
    /\ handler[h].pc = "lock"
    /\ mutex = "free"
    /\ mutex' = h
    /\ handler' = [handler EXCEPT ![h].pc = "change"]
    /\ UNCHANGED <<libVars, storeVars, policies, revisions, queued>>

\* the registry has made the change of the objects, with the policy updated
Changed(h, updated, changed) ==
    /\ policies' = IF changed THEN Append(policies, updated) ELSE policies
    /\ handler' = [handler EXCEPT
            ![h].pc = IF changed THEN "newrevision" ELSE "unlock",
            ![h].changed = changed,
            ![h].newPolicyGen = IF changed THEN LastPolicyGen + 1 ELSE LastPolicyGen,
            ![h].revisionGen = MaxGeneration]
    /\ UNCHANGED <<libVars, storeVars, revisions, mutex, queued>>

\* lines 376-388: registry.UpdatePolicy / registry.DeleteFromPolicy
ChangePolicy(h) ==
    /\ handler[h].pc = "change"
    /\ Changed(h, ChangedPolicy(handler[h].req.objects, handler[h].req.delete),
               ChangedPolicy(handler[h].req.objects, handler[h].req.delete)
                    # PolicyAt(LastPolicyGen))

\* lines 389-395: registry.NewRevision(policyData.GetGeneration(), desiredStateUpdated, false)
NewRevision(h) ==
    /\ handler[h].pc = "newrevision"
    /\ revisions' = Append(revisions, [policyGen |-> handler[h].newPolicyGen,
                                       desiredState |-> handler[h].desiredStateUpdated])
    /\ handler' = [handler EXCEPT ![h].pc = "unlock", ![h].revisionGen = Len(revisions) + 1]
    /\ UNCHANGED <<libVars, storeVars, policies, mutex, queued>>

\* line 373 (deferred): api.policyAndRevisionUpdateMutex.Unlock() when changePolicy returns
Unlock(h) ==
    /\ handler[h].pc = "unlock"
    /\ mutex' = "free"
    /\ handler' = [handler EXCEPT ![h].pc = "respond"]
    /\ UNCHANGED <<libVars, storeVars, policies, revisions, queued>>

\* the result written and the signal sent whether the policy changed or not
RespondAndSignal(h) ==
    /\ handler[h].pc = "respond"
    /\ handler' = [handler EXCEPT
            ![h].pc = "send",
            ![h].response = PolicyUpdateResult(handler[h].changed, handler[h].newPolicyGen,
                                               handler[h].revisionGen, handler[h].plan)]
    /\ UNCHANGED <<libVars, storeVars, policies, revisions, mutex, queued>>

\* lines 255-263 / 353-361: return the result back via API
Respond(h) ==
    /\ handler[h].pc = "respond"
    /\ handler' = [handler EXCEPT
            ![h].pc = IF handler[h].changed THEN "send" ELSE "idle",
            ![h].response = PolicyUpdateResult(handler[h].changed, handler[h].newPolicyGen,
                                               handler[h].revisionGen, handler[h].plan)]
    /\ UNCHANGED <<libVars, storeVars, policies, revisions, mutex, queued>>

\* line 267 / 365: api.runDesiredStateEnforcement <- true, a send that waits for
\* room in the channel
Send(h) ==
    /\ handler[h].pc = "send"
    /\ queued < ChanCapacity
    /\ queued' = queued + 1
    /\ handler' = [handler EXCEPT ![h].pc = "idle"]
    /\ UNCHANGED <<libVars, storeVars, policies, revisions, mutex>>

\* the enforcement loop receives a signal from the channel
Receive ==
    /\ queued > 0
    /\ queued' = queued - 1
    /\ UNCHANGED <<libVars, storeVars, policies, revisions, mutex, handler>>

\* the requests of the concurrent handlers
ApiRequests ==
    {r \in Requests : r.fails = "none" /\ r.objects \in {{"svc"}, {"rule"}}}

NextAPI ==
    \/ \E h \in Handlers, req \in ApiRequests : Request(h, req)
    \/ \E h \in Handlers : LoadPolicyGen(h)
    \/ \E h \in Handlers : LoadRevision(h)
    \/ \E h \in Handlers : ComposeStep(h)
    \/ \E h \in Handlers : Lock(h)
    \/ \E h \in Handlers : ChangePolicy(h)
    \/ \E h \in Handlers : NewRevision(h)
    \/ \E h \in Handlers : Unlock(h)
    \/ \E h \in Handlers : Respond(h)
    \/ \E h \in Handlers : Send(h)
    \/ Receive

SpecAPI == Init /\ [][NextAPI]_vars

\* the handler that serves the requests when they come one at a time
Server == "h1"

\* requests of every kind, one at a time: an update or a delete, by an admin or by
\* another user, noop or not, passing or failing a validation
NextRequest ==
    \/ \E req \in Requests : Request(Server, req)
    \/ LoadPolicyGen(Server)
    \/ LoadRevision(Server)
    \/ ComposeStep(Server)
    \/ Lock(Server)
    \/ ChangePolicy(Server)
    \/ NewRevision(Server)
    \/ Unlock(Server)
    \/ Respond(Server)
    \/ Send(Server)
    \/ Receive

SpecRequest == Init /\ [][NextRequest]_vars

-----------------------------------------------------------------------------
(* GET of one policy object (handlePolicyObjectGet, lines 62-87)              *)

\* registry.GetPolicy(gen): the latest policy for LastOrEmptyGen
GetPolicy(gen) == IF gen = LastOrEmptyGen THEN PolicyAt(LastPolicyGen) ELSE PolicyAt(gen)

\* policy.GetObject(kind, name, ns): the object, "" (nil) when the policy has none
GetObject(policy, object) == IF object \in policy THEN object ELSE ""

\* what the handler writes for the object found: WriteOneWithStatus(nil, 404) when
\* it is nil (lines 82-84), and then WriteOne(obj) in every case (line 86)
Written(obj) ==
    (IF obj = "" THEN <<[status |-> 404, body |-> ""]>> ELSE <<>>)
        \o <<[status |-> 200, body |-> obj]>>

getFrame == <<storeVars, apiVars, listVars, saves, cacheVars>>

\* a GET arrives for a generation the registry has; gen is the gen parameter,
\* LastOrEmptyGen when it is missing (lines 63-67)
GetRequest(gen, object) ==
    /\ getter.pc = "idle"
    /\ gen <= LastPolicyGen
    /\ getter' = [IdleGetter EXCEPT !.pc = "load", !.gen = gen, !.object = object]
    /\ UNCHANGED getFrame

\* line 69: api.registry.GetPolicy(runtime.ParseGeneration(gen))
GetLoad ==
    /\ getter.pc = "load"
    /\ getter' = [getter EXCEPT !.pc = "respond", !.policy = GetPolicy(getter.gen)]
    /\ UNCHANGED getFrame

\* lines 74-86: the lookup of the object and the responses
GetRespond ==
    /\ getter.pc = "respond"
    /\ getter' = [getter EXCEPT
            !.pc = "idle", !.written = Written(GetObject(getter.policy, getter.object))]
    /\ UNCHANGED getFrame

\* the requests that build the policies the GETs read
GetPolicyRequests ==
    {r \in ApiRequests : r.user = "admin" /\ ~r.noop}

\* GETs of policy objects while policy updates and deletes are served
NextGet ==
    \/ \E gen \in 0..MaxPolicyGen, object \in PolicyObjects : GetRequest(gen, object)
    \/ GetLoad
    \/ GetRespond
    \/ \E req \in GetPolicyRequests : Request(Server, req)
    \/ LoadPolicyGen(Server)
    \/ LoadRevision(Server)
    \/ ComposeStep(Server)
    \/ Lock(Server)
    \/ ChangePolicy(Server)
    \/ NewRevision(Server)
    \/ Unlock(Server)
    \/ Respond(Server)
    \/ Send(Server)
    \/ Receive

SpecGet == Init /\ [][NextGet]_vars

-----------------------------------------------------------------------------
(* What the store holds for a key *)

VersionedKeys == {KeyForStorable(o) : o \in VersionedObjects}

LastGenIndexOf(info) == IndexesFor(info)[1]

ReplicasIndex == [Type |-> IndexTypeListGen, Field |-> "replicas", ValueTransform |-> "noop"]

\* the generation in /index/lastgen/<key>, 0 when the entry is absent
LastGenOf(store, key) ==
    IF IndexKey(NameForValue(LastGenIndexOf(Types.Service), key, NilValue)) \in DOMAIN store
    THEN unmarshalGen(store[IndexKey(NameForValue(LastGenIndexOf(Types.Service), key, NilValue))])
    ELSE 0

\* the object stored at /object/<key>@g
StoredObject(store, key, g) == unmarshal(store[ObjectKey(<<"/">> \o key, g)])

\* the generation list in /index/listgen/<key>/replicas=<v>, empty when the entry is absent
ListGenOf(store, key, v) ==
    IF IndexKey(NameForValue(ReplicasIndex, key, v)) \in DOMAIN store
    THEN unmarshalList(store[IndexKey(NameForValue(ReplicasIndex, key, v))])
    ELSE <<>>

ListGenSet(store, key, v) ==
    {unmarshalGen(ListGenOf(store, key, v)[i]) : i \in 1..Len(ListGenOf(store, key, v))}

SetMax(S) == CHOOSE x \in S : \A y \in S : y <= x

\* equal in every field other than the generation
SameContent(a, b) == [a EXCEPT !.gen = 0] = [b EXCEPT !.gen = 0]

ObjectKeysIn(keys) == {k \in keys : k[1] = "/object"}

IsDefaultSave(c) ==
    c.op = "Save" /\ c.arg # Nil /\ ~c.opts.replaceOrForceGen

-----------------------------------------------------------------------------
(* Claims *)

\* C1: after any sequence of Save calls in either mode, the lastgen index entry of
\* every key is absent or equal to the highest generation stored for the key.
\* Violated: ReplaceOrForceGen puts the caller's generation into lastgen (line 762)
\* also when a higher generation is stored.
C1_LastGenIsHighest ==
    \A key \in VersionedKeys :
        \/ LastGenOf(kv, key) = 0
        \/ /\ StoredGens(kv, key) # {}
           /\ LastGenOf(kv, key) = SetMax(StoredGens(kv, key))

C3_CallerGenerationIgnored ==
    [][(/\ IsDefaultSave(call')
        /\ LastGenOf(kv, KeyForStorable(call'.arg)) # 0
        /\ SameContent(StoredObject(kv, KeyForStorable(call'.arg),
                                     LastGenOf(kv, KeyForStorable(call'.arg))),
                        call'.arg))
       => (/\ kv' = kv
           /\ call'.obj.gen = LastGenOf(kv, KeyForStorable(call'.arg)))]_vars

\* C4: after any sequence of Save and Delete calls, the listgen entry of every value v
\* of the indexed field holds exactly the stored generations whose object has value v.
\* Violated: ReplaceOrForceGen leaves the overwritten object's generation in the
\* entry of its old value.
C4_ListGenMatchesObjects ==
    \A key \in VersionedKeys : \A v \in ReplicasValues :
        ListGenSet(kv, key, v) =
            {g \in StoredGens(kv, key) : StoredObject(kv, key, g).replicas = v}

\* C5: under default-mode Saves only, the stored generations of a key are 1..lastgen,
\* each Save adds at most one generation, and every generation g > 1 differs in
\* content, the generation field aside, from generation g-1.
\* Violated in its last part, by the comparison C3 is about.
C5_DenseAndDistinct ==
    /\ IsDefaultSave(call) => Cardinality(ObjectKeysIn(call.wrote)) <= 1
    /\ \A key \in VersionedKeys :
          /\ StoredGens(kv, key) = 1..LastGenOf(kv, key)
          /\ \A g \in StoredGens(kv, key) :
                g > 1 => ~SameContent(StoredObject(kv, key, g), StoredObject(kv, key, g - 1))

\* a handler is between loading the latest policy (line 157 / 277) and the end of
\* its request, the publishing of the enforcement signal included
InSequence(h) == handler[h].pc \notin {"idle", "load"}

\* C6: two policy update or delete requests never overlap between loading the latest
\* policy and publishing the enforcement signal: a handler in that stretch holds the
\* mutex, so no two handlers are in it at once.
\* Violated: the mutex is taken in changePolicy only (lines 372-373), after the
\* loads, the composition, the validation, the resolution and the diff, and it is
\* released before the signal is sent.
C6_HandlersNeverOverlap ==
    \A h1 \in Handlers : \A h2 \in Handlers \ {h1} : ~(InSequence(h1) /\ InSequence(h2))

\* C7: a handler that has changed the policy never waits at its send on the
\* enforcement channel: with a signal already queued the send is dropped and the
\* handler completes.
\* Violated: the send at line 267 / 365 has no default case; with the channel full
\* the handler stays at the send until the enforcement loop receives.
C7_SendNeverWaits ==
    \A h \in Handlers : handler[h].pc = "send" => ENABLED Send(h)

\* C8: under any interleaving of concurrent default-mode Saves, whenever
\* /object/<key>@g is stored, the lastgen entry of the key is present and not lower
\* than g, and g is in the listgen entry of the object's indexed value.
C8_ObjectAndIndexesAtomic ==
    \A key \in VersionedKeys : \A g \in StoredGens(kv, key) :
        /\ LastGenOf(kv, key) >= g
        /\ g \in ListGenSet(kv, key, StoredObject(kv, key, g).replicas)

\* two generations are stored and a client's commit is pending on a closure run
\* that another client's commit has invalidated
C8_Witness ==
    \E c \in Clients, key \in VersionedKeys :
        /\ stm[c] # Nil
        /\ stm[c].pc = "commit"
        /\ ~NoConflict(kv, stm[c].snap)
        /\ StoredGens(kv, key) = {1, 2}

\* C9: when Save with ReplaceOrForceGen overwrites the object stored at generation g
\* and the indexed value changes from v to w, then after the Save g is absent from
\* the listgen entry of v and present in the entry of w.
\* Violated: g stays in the entry of v (the todo at line 765; prevObj stays nil).
C9_ReplaceMovesIndexEntry ==
    [][(/\ call'.op = "Save" /\ call'.arg # Nil /\ call'.opts.replaceOrForceGen
        /\ call'.err = NoErr
        /\ call'.arg.gen \in StoredGens(kv, KeyForStorable(call'.arg))
        /\ StoredObject(kv, KeyForStorable(call'.arg), call'.arg.gen).replicas
              # call'.arg.replicas)
       => (/\ call'.arg.gen \notin
                ListGenSet(kv', KeyForStorable(call'.arg),
                           StoredObject(kv, KeyForStorable(call'.arg), call'.arg.gen).replicas)
           /\ call'.arg.gen \in
                ListGenSet(kv', KeyForStorable(call'.arg), call'.arg.replicas))]_vars

\* C10: after the first default-mode Save of an object whose key has no stored
\* generation, the object has generation 1, lastgen is 1, and Find by that key with
\* generation 0 fills the single-object result with the saved object.
\* Violated: findByKey returns nil without touching the result.
C10_FirstSaveThenFind ==
    [][(/\ IsDefaultSave(call) /\ call.fresh /\ call.err = NoErr
        /\ call'.op = "Find" /\ call'.shape = "single"
        /\ call'.find = [keyPrefix |-> <<>>, key |-> KeyForStorable(call.obj),
                         gen |-> 0, fieldEqName |-> ""])
       => (/\ call.obj.gen = 1
           /\ LastGenOf(kv, KeyForStorable(call.obj)) = 1
           /\ call'.err = NoErr
           /\ call'.result = <<call.obj>>)]_vars

RequiredShape(findOpts) ==
    IF findOpts.keyPrefix # <<>> THEN "list"
    ELSE IF findOpts.key # <<>> /\ findOpts.fieldEqName = "" THEN "single"
    ELSE "list"

\* C12: Find returns an error and writes nothing into the result whenever the shape
\* of the result does not match the shape of the query, and no combination of
\* options makes Find panic.
\* Violated: Find only checks that the result is a single object or a sequence of
\* the kind (lines 815-826), not which of the two the query needs; a key-prefix
\* query with a single result returns nil, and a field-equality query with a single
\* result panics in reflect.Append (lines 842-845, 858).
C12_FindRejectsShapeMismatch ==
    call.op = "Find" =>
        /\ call.err # "panic"
        /\ call.shape # RequiredShape(call.find) => (call.err # NoErr /\ call.result = <<>>)

\* handler h leaves the composition of its request (lines 180-250 / 300-348) in this step
Composes(h) == handler[h].pc = "compose" /\ handler'[h].pc # "compose"

\* the registry and the enforcement channel are as they were
RegistryUnchanged == policies' = policies /\ revisions' = revisions /\ queued' = queued

\* ManageObject fails for some object of the request of handler h
ManageFails(h) ==
    ApplyObjects(handler[h].policyUpdated, handler[h].req.user,
                 SortObjects(handler[h].req.objects, handler[h].req.delete),
                 handler[h].req.delete).err = "manage"

\* C13: if ManageObject fails for an object of an update or delete request, the
\* request is rejected as an ACL denial (HTTP 403) and the registry is left
\* unchanged: no policy generation, no revision, no enforcement signal.
\* Violated in the response: the handler panics with a formatted string (lines
\* 184-186 / 304-306), the same way as for every other error, and writes no 403.
C13_ACLDenialIs403 ==
    [][\A h \in Handlers :
         (Composes(h) /\ ManageFails(h))
            => (/\ handler'[h].pc = "idle"
                /\ handler'[h].response.status = 403
                /\ RegistryUnchanged)]_vars

\* one of the validations of the request fails: policyUpdated.Validate (line 194 /
\* 310), plugin.Validate of a submitted cluster (lines 201-215, update only), or
\* desiredStateUpdated.Validate (line 232 / 330)
ValidationFails(req) ==
    \/ req.fails = "policy"
    \/ req.fails = "plugin" /\ ~req.delete /\ \E o \in req.objects : Kind(o) = "cluster"
    \/ req.fails = "resolution"

\* C14: if the validation of the updated policy, of a submitted cluster by its
\* plugin, or of the newly resolved desired state fails, the request ends without
\* any registry write: no policy generation, no revision, no enforcement signal.
C14_ValidationFailureWritesNothing ==
    [][\A h \in Handlers :
         (Composes(h) /\ ValidationFails(handler[h].req))
            => (/\ handler'[h].pc = "idle"
                /\ handler'[h].response = PanicResponse
                /\ RegistryUnchanged)]_vars

\* an admin's update with a cluster whose plugin validation fails has ended in a
\* panic, with the policy generation of an earlier request still the latest
C14_Witness ==
    /\ handler[Server].pc = "idle"
    /\ handler[Server].req.fails = "plugin" /\ ~handler[Server].req.delete
    /\ "k8s" \in handler[Server].req.objects
    /\ handler[Server].req.user = "admin" /\ ~handler[Server].req.noop
    /\ handler[Server].response = PanicResponse
    /\ handler[Server].policyGen = 1 /\ LastPolicyGen = 1 /\ Len(revisions) = 1

\* the ManageObject checks the object loop of a handler makes, in their order: each
\* with the object checked and the working copy of the policy it is checked against;
\* the loop ends at the first check that fails
RECURSIVE Checks(_, _, _, _)
Checks(policy, user, objects, delete) ==
    IF objects = <<>> THEN <<>>
    ELSE <<[obj |-> Head(objects), policy |-> policy]>>
         \o (IF ~ManageObject(policy, user, Head(objects)) THEN <<>>
             ELSE Checks(IF delete THEN policy \ {Head(objects)}
                                   ELSE policy \cup {Head(objects)},
                         user, Tail(objects), delete))

\* the policy with the objects objs added, or removed for a delete
Effect(policy, objs, delete) == IF delete THEN policy \ objs ELSE policy \cup objs

\* the checks of the request handler h is about to compose
ChecksOf(h) ==
    Checks(handler[h].policyUpdated, handler[h].req.user,
           SortObjects(handler[h].req.objects, handler[h].req.delete),
           handler[h].req.delete)

\* C15: an update checks and adds every ACL rule before any object of another kind,
\* a delete checks and removes every ACL rule after all objects of other kinds, and
\* each ManageObject check is evaluated against the working copy that holds the
\* effect of the objects processed before it; the handler goes on with the working
\* copy after all objects exactly when no check fails.
C15_ACLRulesFirstOnUpdateLastOnDelete ==
    [][\A h \in Handlers :
         Composes(h) =>
            LET log == ChecksOf(h)
                req == handler[h].req
                denied == \E i \in 1..Len(log) :
                             ~ManageObject(log[i].policy, req.user, log[i].obj)
            IN  /\ \A i \in 1..Len(log) : \A j \in 1..Len(log) :
                      i < j => IF req.delete
                               THEN Weight(log[i].obj) >= Weight(log[j].obj)
                               ELSE Weight(log[i].obj) <= Weight(log[j].obj)
                /\ \A i \in 1..Len(log) :
                      log[i].policy = Effect(handler[h].policyUpdated,
                                             {log[j].obj : j \in 1..(i - 1)}, req.delete)
                /\ ~denied => {log[i].obj : i \in 1..Len(log)} = req.objects
                /\ denied <=> ManageFails(h)
                /\ ~denied =>
                      handler'[h].policyUpdated =
                          Effect(handler[h].policyUpdated, req.objects, req.delete)
                /\ denied => handler'[h].response = PanicResponse]_vars

\* alice's delete of the rule, the service and the cluster from a policy that holds
\* the three: the service and the cluster were checked while the rule still granted
\* her the right and are removed from the working copy, the rule, checked last, is
\* denied
C15_Witness ==
    /\ handler[Server].pc = "idle"
    /\ handler[Server].req.delete /\ handler[Server].req.user = "alice"
    /\ handler[Server].req.objects = PolicyObjects
    /\ PolicyAt(handler[Server].policyGen) = PolicyObjects
    /\ handler[Server].policyUpdated = {"rule"}
    /\ handler[Server].response = PanicResponse

\* the number of times a conflicting transaction is retried before Save gives up
ConflictRetries == 5

\* C16: a Save whose transaction keeps conflicting re-runs the transaction body at
\* most N = 5 times and then returns a ConflictRetry error: no transaction body
\* is run more than N + 1 times.
\* Violated: Save hands the closure to NewSTM with no bound (line 708) and returns
\* NewSTM's error as it is (line 787); the closure is run again after every
\* conflicting commit, as long as other clients keep writing the keys it read.
C16_RetriesBounded ==
    \A c \in Clients : stm[c] # Nil => stm[c].runs <= ConflictRetries + 1

\* the key a non-versioned object is stored at
StaticKey(storable) == ObjectKey(<<"/">> \o KeyForStorable(storable), LastOrEmptyGen)

\* the call that has just returned is a Save of an object of a non-versioned kind
IsNonVersionedSave(c) ==
    c.op = "Save" /\ c.arg # Nil /\ ~Types[c.arg.kind].Versioned

\* C17: Save of an object of a non-versioned kind writes exactly one key,
\* /object/<key>@0, overwriting what was there, leaves every other key as it was
\* and reads no key, whatever the options and the generation of the object.
C17_NonVersionedSingleKey ==
    [][IsNonVersionedSave(call') =>
        /\ call'.err = NoErr
        /\ call'.wrote = {StaticKey(call'.arg)}
        /\ Save(kv, call'.arg, call'.opts).rset = {}
        /\ DOMAIN kv' = DOMAIN kv \cup {StaticKey(call'.arg)}
        /\ kv'[StaticKey(call'.arg)] = marshal(call'.arg)
        /\ \A k \in DOMAIN kv : k # StaticKey(call'.arg) => kv'[k] = kv[k]]_vars

\* a non-versioned object carrying generation 1 has been saved with
\* ReplaceOrForceGen next to a versioned object and its indexes
C17_Witness ==
    /\ IsNonVersionedSave(call)
    /\ call.arg.gen = 1
    /\ call.opts.replaceOrForceGen
    /\ kv[StaticKey(call.arg)] = marshal(call.arg)
    /\ \E key \in VersionedKeys : LastGenOf(kv, key) = 2

\* handler h takes this step while serving a noop request
NoopStep(h) == handler'[h] # handler[h] /\ handler'[h].req.noop

\* the policy the objects of the request of handler h make of the policy generation
\* the handler loaded
RequestedPolicy(h) ==
    IF handler[h].req.delete
    THEN PolicyAt(handler[h].policyGen) \ handler[h].req.objects
    ELSE PolicyAt(handler[h].policyGen) \cup handler[h].req.objects

\* C18: a policy update or delete request with noop=true never changes the
\* registry, creates no revision and sends no enforcement signal: it never enters
\* changePolicy. When it is answered, its result has PolicyChanged=false, the
\* policy generation loaded at the start of the request, WaitForRevision =
\* MaxGeneration and the action plan from the desired state loaded at the start to
\* the resolution of the requested policy.
C18_NoopChangesNothing ==
    [][\A h \in Handlers : NoopStep(h) =>
        /\ RegistryUnchanged
        /\ mutex' = mutex
        /\ handler'[h].pc \in {"load", "revision", "compose", "idle"}
        /\ (Composes(h) /\ handler'[h].response # PanicResponse) =>
                handler'[h].response =
                    [status |-> 200, changed |-> FALSE,
                     policyGen |-> handler[h].policyGen,
                     waitForRevision |-> MaxGeneration,
                     plan |-> ActionPlan(ResolveAllClaims(RequestedPolicy(h)),
                                         handler[h].desiredState)]]_vars

\* a noop update of a policy that has a generation and a revision has been
\* answered with a plan that is not empty, and nothing was added to the registry
C18_Witness ==
    /\ handler[Server].pc = "idle"
    /\ handler[Server].req.noop /\ ~handler[Server].req.delete
    /\ handler[Server].response.status = 200
    /\ handler[Server].response.policyGen = 1
    /\ handler[Server].response.plan # NoPlan
    /\ LastPolicyGen = 1 /\ Len(revisions) = 1

\* C19: history is never destroyed: a Save in default mode of a versioned object
\* leaves every stored /object/<key>@g with the value it had; it only adds a
\* generation.
\* Violated after a Save with ReplaceOrForceGen has moved the lastgen index below a
\* stored generation: the default Save then writes generation lastgen + 1 over the
\* object stored there.
C19_HistoryKept ==
    [][(IsDefaultSave(call') /\ Types[call'.arg.kind].Versioned) =>
        \A k \in ObjectKeysIn(DOMAIN kv) : k \in DOMAIN kv' /\ kv'[k] = kv[k]]_vars

\* handler h is inside changePolicy, after Lock and before the deferred Unlock
InChangePolicy(h) == handler[h].pc \in {"change", "newrevision", "unlock"}

\* C20: changePolicy makes the policy change and the new revision as one unit: a
\* handler inside changePolicy holds the mutex, so it is the only one there; when
\* it is about to create its revision, the policy generation it produced is still
\* the latest and has no revision yet; revisions are recorded for strictly
\* increasing policy generations; and every changing request returns a policy
\* generation of its own together with the revision recorded for that generation.
C20_ChangePolicyIsOneUnit ==
    /\ \A h \in Handlers : InChangePolicy(h) => mutex = h
    /\ \A h \in Handlers : handler[h].pc = "newrevision" =>
            /\ handler[h].newPolicyGen = LastPolicyGen
            /\ \A i \in 1..Len(revisions) : revisions[i].policyGen < handler[h].newPolicyGen
    /\ \A i, j \in 1..Len(revisions) :
            i < j => revisions[i].policyGen < revisions[j].policyGen
    /\ \A h \in Handlers : handler[h].response.changed =>
            /\ handler[h].response.waitForRevision \in 1..Len(revisions)
            /\ revisions[handler[h].response.waitForRevision].policyGen
                    = handler[h].response.policyGen
            /\ \A g \in Handlers \ {h} : handler[g].response.changed =>
                    handler[g].response.policyGen # handler[h].response.policyGen

\* two requests have changed the policy one after the other, the second having
\* composed its change before the first entered changePolicy
C20_Witness ==
    /\ handler["h1"].response.changed /\ handler["h1"].response.policyGen = 1
    /\ handler["h2"].response.changed /\ handler["h2"].response.policyGen = 2
    /\ handler["h2"].policyGen = 0
    /\ Len(revisions) = 2

\* C21: the desired state stored in every revision is the resolution of the policy
\* at the policy generation the revision is recorded for.
\* Violated: the desired state is resolved from the policy loaded at the start of
\* the request (lines 175-231), before the mutex is taken, and NewRevision stores
\* it for the generation UpdatePolicy produced from the latest policy (line 390).
C21_RevisionResolvesItsPolicy ==
    \A i \in 1..Len(revisions) :
        revisions[i].desiredState = ResolveAllClaims(PolicyAt(revisions[i].policyGen))

\* handler h moves from program point from to program point to in this step
Moves(h, from, to) == handler[h].pc = from /\ handler'[h].pc = to

Elements(l) == {l[i] : i \in 1..Len(l)}

\* the list l with every occurrence of value v left out, the rest in place
RECURSIVE Without(_, _)
Without(l, v) ==
    IF l = <<>> THEN <<>>
    ELSE IF Head(l) = v THEN Without(Tail(l), v)
    ELSE <<Head(l)>> \o Without(Tail(l), v)

\* C23: Remove(v) removes v when v is in the list and leaves every other element
\* in place; when v is not in the list, Remove(v) leaves the list unchanged.
\* Violated: Remove deletes the element at the position the binary search returns
\* whenever that position is inside the list (line 600), without comparing the
\* element found there with v: for v not in the list it deletes the smallest
\* element greater than v.
C23_RemoveOnlyTheValue ==
    listOp.op = "Remove" => values = Without(listOp.before, listOp.value)

\* C24: after any sequence of Add and Remove calls from the empty list, the list is
\* strictly ascending in byte order; Add(v) of a value already in the list leaves
\* the list as it is; v is in the list after Add(v); and Contains(v) is true
\* exactly when v is an element of the list.
C24_SortedSet ==
    /\ \A i \in 1..(Len(values) - 1) : BytesCompare(values[i], values[i + 1]) < 0
    /\ listOp.op = "Add" =>
            /\ listOp.value \in Elements(listOp.before) => values = listOp.before
            /\ listOp.value \in Elements(values)
            /\ Elements(values) = Elements(listOp.before) \cup {listOp.value}
    /\ listOp.op = "Contains" =>
            (listOp.found <=> listOp.value \in Elements(listOp.before))
    /\ \A v \in ListValues : Contains(values, v) <=> v \in Elements(values)

\* a value of two digits already in a list of four values has been added again
C24_Witness ==
    /\ listOp.op = "Add" /\ listOp.value = marshalGen(10)
    /\ listOp.value \in Elements(listOp.before)
    /\ Len(values) = 4 /\ marshalGen(2) \in Elements(values)

\* the store after the call x and then the call y have run one after the other on
\* the store base, and the objects and errors the two calls return
Serial(base, x, y) ==
    LET first == Save(base, x, DefaultOpts)
        between == Commit(base, first.wset)
        second == Save(between, y, DefaultOpts)
    IN  [store |-> Commit(between, second.wset),
         objs |-> <<first.obj, second.obj>>, errs |-> <<first.err, second.err>>]

\* the two clients have made overlapping Saves and both have returned
BothReturned(c, d) ==
    /\ c # d
    /\ saves[c] # Nil /\ saves[d] # Nil
    /\ saves[c].done /\ saves[d].done
    /\ saves[c].base = saves[d].base

\* C25: for two concurrent default-mode Saves on the same versioned key, the final
\* store and the generations given to the two objects are those of one of the two
\* serial orders of the same calls.
\* Violated because of the comparison of claim C3: a closure that is run again
\* finds its object carrying the generation of the first run, which the other
\* client has just stored, and takes the object as unchanged, where the same call
\* made after the other one, with a fresh object, writes a new generation.
C25_SerialOutcome ==
    \A c, d \in Clients : BothReturned(c, d) =>
        \/ [store |-> kv, objs |-> <<saves[c].obj, saves[d].obj>>,
             errs |-> <<saves[c].err, saves[d].err>>]
                = Serial(saves[c].base, saves[c].arg, saves[d].arg)
        \/ [store |-> kv, objs |-> <<saves[d].obj, saves[c].obj>>,
             errs |-> <<saves[d].err, saves[c].err>>]
                = Serial(saves[c].base, saves[d].arg, saves[c].arg)

\* goroutine c has returned from IndexesFor
HasReturned(c) == caller[c].got # Nil

\* C26: for any interleaving of concurrent IndexesFor calls, the index set of a kind
\* is derived exactly once; every caller receives the same instance; the instance
\* is fully populated when a caller receives it (the LastGen index iff the kind is
\* versioned, one ListGen index per indexed field); and it is not modified after
\* it has been returned.
C26_DerivedOnce ==
    /\ \A kind \in DOMAIN Types :
            derivations[kind] = (IF kind \in DOMAIN indexCache THEN 1 ELSE 0)
    /\ \A c \in Clients : HasReturned(c) =>
            /\ caller[c].got.List = IndexesFor(Types[caller[c].kind])
            /\ caller[c].got = indexCache[caller[c].kind]
    /\ \A c, d \in Clients :
            (HasReturned(c) /\ HasReturned(d) /\ caller[c].kind = caller[d].kind) =>
                caller[c].got.id = caller[d].got.id

\* both goroutines have returned from IndexesFor for the versioned kind with its
\* indexed field, while the other kind is in the cache too
C26_Witness ==
    /\ \A c \in Clients : HasReturned(c) /\ caller[c].pc = "idle" /\ caller[c].kind = "Service"
    /\ Len(indexCache["Service"].List) = 2
    /\ "User" \in DOMAIN indexCache

\* the index keys of the two formats, for the objects of the model
IndexKeyFormats ==
    {<<"/index/", "lastgen", "/", o.ns, "/", o.kind, "/", o.name>> :
        o \in VersionedObjects \cup EndpointObjects}
    \cup {<<"/index/", "listgen", "/", o.ns, "/", o.kind, "/", o.name, "/", "replicas", "=">>
            \o Itoa(o.replicas) : o \in VersionedObjects \cup EndpointObjects}

\* C27: every index entry written by Save lies under /index/lastgen/<ns>/<kind>/<name>
\* or /index/listgen/<ns>/<kind>/<name>/<field>=<value>, also when the value
\* transform of the field returns nil.
\* Violated: Index.NameForValue returns "" when the transformed value is nil (lines
\* 548-551) and Save puts the generation list at "/index/" + "" (lines 760, 778):
\* the entries of every object and field with a nil transformed value share the
\* store key "/index/".
C27_IndexKeyFormats ==
    \A k \in DOMAIN kv : k[1] = "/index/" => k \in IndexKeyFormats

\* the GET has been answered
Answered == getter.pc = "idle" /\ getter.written # <<>>

\* C28: for every GET of a policy object the handler writes exactly one response:
\* NotFound (404) when the object is absent from the policy of the requested
\* generation, the object when it is present.
\* Violated: after writing the 404 for a nil object the handler does not return
\* (lines 82-84) and goes on to WriteOne(obj) at line 86.
C28_OneResponse ==
    Answered =>
        /\ Len(getter.written) = 1
        /\ getter.written[1] =
                (IF getter.object \in getter.policy
                 THEN [status |-> 200, body |-> getter.object]
                 ELSE [status |-> 404, body |-> ""])

\* the lastgen index of the key of the object names a generation that is not stored
LastGenDangling(store, storable) ==
    /\ LastGenOf(store, KeyForStorable(storable)) # 0
    /\ ObjectKey(<<"/">> \o KeyForStorable(storable),
                 LastGenOf(store, KeyForStorable(storable))) \notin DOMAIN store

\* the cases in which Save(storable, opts) on the store has to fail
MustFail(store, storable, opts) ==
    \/ storable = Nil
    \/ /\ storable # Nil
       /\ Types[storable.kind].Versioned
       /\ \/ opts.replaceOrForceGen /\ storable.gen = LastOrEmptyGen
          \/ ~opts.replaceOrForceGen /\ LastGenDangling(store, storable)

C30_NumericOrder ==
    \A i \in 1..(Len(values) - 1) :
        unmarshalGen(values[i]) < unmarshalGen(values[i + 1])

====
